---- MODULE Spec2Model ----
(***************************************************************************)
(* Kinship Calculator: the relationship resolver of src/main.py.           *)
(* A request carries a list of raw step tokens.  compute_relationship      *)
(* normalizes every token, scans the normalized list once accumulating     *)
(* up / down / lateral_sibling / affinity / final_gender, and then applies *)
(* an ordered list of rules that returns a RelationshipResult.             *)
(*                                                                         *)
(* A token is a sequence of one-character strings, so that strip() and     *)
(* lower() are computed character by character.  Labels, explanations and  *)
(* the canonical dump are strings built by concatenation.                  *)
(***************************************************************************)
EXTENDS Integers, Sequences, FiniteSets, TLC

VARIABLES req, steps, i, up, down, lateral_sibling, affinity, final_gender,
          pc, result

vars == <<req, steps, i, up, down, lateral_sibling, affinity, final_gender,
          pc, result>>

---------------------------------------------------------------------------
(* Bounds of the explored inputs *)

MaxLen == 3
MaxNormLen == 1
MaxDeep == 8
MaxPair == 3

---------------------------------------------------------------------------
(* The vocabulary: keys and values of the alias table *)

mom == <<"m","o","m">>
mum == <<"m","u","m">>
dad == <<"d","a","d">>
boy == <<"b","o","y">>
girl == <<"g","i","r","l">>
man == <<"m","a","n">>
woman == <<"w","o","m","a","n">>
bro == <<"b","r","o">>
sis == <<"s","i","s">>
parents == <<"p","a","r","e","n","t","s">>
kids == <<"k","i","d","s">>
child == <<"c","h","i","l","d">>
son == <<"s","o","n">>
daughter == <<"d","a","u","g","h","t","e","r">>
spouse == <<"s","p","o","u","s","e">>
wife == <<"w","i","f","e">>
husband == <<"h","u","s","b","a","n","d">>
mother == <<"m","o","t","h","e","r">>
father == <<"f","a","t","h","e","r">>
parent == <<"p","a","r","e","n","t">>
brother == <<"b","r","o","t","h","e","r">>
sister == <<"s","i","s","t","e","r">>
sibling == <<"s","i","b","l","i","n","g">>

(* strip(): the whitespace characters removed from both ends *)
Whitespace == {" ", "\t"}

RECURSIVE lstrip(_)
lstrip(s) ==
    IF s # <<>> /\ Head(s) \in Whitespace THEN lstrip(Tail(s)) ELSE s

RECURSIVE rstrip(_)
rstrip(s) ==
    IF s # <<>> /\ s[Len(s)] \in Whitespace
    THEN rstrip(SubSeq(s, 1, Len(s) - 1))
    ELSE s

strip(s) == rstrip(lstrip(s))

(* lower(): the cased letters and their lowercase forms *)
UpperLetters ==
    <<"A","B","C","D","E","F","G","H","I","J","K","L","M",
      "N","O","P","Q","R","S","T","U","V","W","X","Y","Z">>

LowerLetters ==
    <<"a","b","c","d","e","f","g","h","i","j","k","l","m",
      "n","o","p","q","r","s","t","u","v","w","x","y","z">>

UpperSet == { UpperLetters[k] : k \in 1..Len(UpperLetters) }

lowerChar(c) ==
    IF c \in UpperSet
    THEN LowerLetters[CHOOSE k \in 1..Len(UpperLetters) : UpperLetters[k] = c]
    ELSE c

lower(s) == [k \in 1..Len(s) |-> lowerChar(s[k])]

(* A plausible slip in the table: an alias mapped to another alias *)
aliases_mom_to_mum ==
    { <<mom, mum>>, <<mum, mother>>, <<dad, father>>, <<boy, son>>,
      <<girl, daughter>>, <<man, husband>>, <<woman, wife>>,
      <<bro, brother>>, <<sis, sister>>, <<parents, parent>>,
      <<kids, child>>, <<child, child>>, <<son, son>>,
      <<daughter, daughter>>, <<spouse, spouse>>, <<wife, wife>>,
      <<husband, husband>>, <<mother, mother>>, <<father, father>>,
      <<parent, parent>>, <<brother, brother>>, <<sister, sister>>,
      <<sibling, sibling>> }

(* The alias table, as <<key, value>> pairs *)
aliases ==
    { <<mom, mother>>, <<mum, mother>>, <<dad, father>>, <<boy, son>>,
      <<girl, daughter>>, <<man, husband>>, <<woman, wife>>,
      <<bro, brother>>, <<sis, sister>>, <<parents, parent>>,
      <<kids, child>>, <<child, child>>, <<son, son>>,
      <<daughter, daughter>>, <<spouse, spouse>>, <<wife, wife>>,
      <<husband, husband>>, <<mother, mother>>, <<father, father>>,
      <<parent, parent>>, <<brother, brother>>, <<sister, sister>>,
      <<sibling, sibling>> }

alias_keys == { p[1] : p \in aliases }

(* aliases.get(t, d) *)
aliases_get(t, d) ==
    IF t \in alias_keys
    THEN (CHOOSE p \in aliases : p[1] = t)[2]
    ELSE d

_normalize_token(tok) ==
    LET t == lower(strip(tok))
    IN  aliases_get(t, t)

(* base + "s" unless n is 1; a slip that tests the wrong way round *)
_pluralize_flipped(base, n) == IF n = 1 THEN base \o "s" ELSE base

_pluralize(base, n) == IF n = 1 THEN base ELSE base \o "s"

(* "great-" * n : Python string repetition, empty for n <= 0 *)
RECURSIVE repeat(_, _)
repeat(s, n) == IF n <= 0 THEN "" ELSE s \o repeat(s, n - 1)

---------------------------------------------------------------------------
(* The scan: one token's effect on the accumulated structure *)

ParentTokens == {mother, father, parent}
ChildTokens == {son, daughter, child}
SiblingTokens == {brother, sister, sibling}
SpouseTokens == {spouse, husband, wife}

None == "None"

scan_parent(acc, tok) ==
    [acc EXCEPT !.up = @ + 1,
                !.final_gender = IF tok = mother THEN "female"
                                 ELSE IF tok = father THEN "male"
                                 ELSE None]

scan_child(acc, tok) ==
    [acc EXCEPT !.down = @ + 1,
                !.final_gender = IF tok = son THEN "male"
                                 ELSE IF tok = daughter THEN "female"
                                 ELSE None]

(* A slip: the sibling hop counted without its up and down moves *)
scan_sibling_lateral_only(acc, tok) ==
    [acc EXCEPT !.lateral_sibling = @ + 1,
                !.final_gender = IF tok = brother THEN "male"
                                 ELSE IF tok = sister THEN "female"
                                 ELSE None]

scan_sibling(acc, tok) ==
    [acc EXCEPT !.up = @ + 1,
                !.down = @ + 1,
                !.lateral_sibling = @ + 1,
                !.final_gender = IF tok = brother THEN "male"
                                 ELSE IF tok = sister THEN "female"
                                 ELSE None]

(* A slip: the neutral spouse token keeps the previous gender *)
scan_spouse_keeps_gender(acc, tok) ==
    [acc EXCEPT !.affinity = TRUE,
                !.final_gender = IF tok = husband THEN "male"
                                 ELSE IF tok = wife THEN "female"
                                 ELSE @]

scan_spouse(acc, tok) ==
    [acc EXCEPT !.affinity = TRUE,
                !.final_gender = IF tok = husband THEN "male"
                                 ELSE IF tok = wife THEN "female"
                                 ELSE None]

scan_token(acc, tok) ==
    IF tok \in ParentTokens THEN scan_parent(acc, tok)
    ELSE IF tok \in ChildTokens THEN scan_child(acc, tok)
    ELSE IF tok \in SiblingTokens THEN scan_sibling(acc, tok)
    ELSE IF tok \in SpouseTokens THEN scan_spouse(acc, tok)
    ELSE acc

scan_start ==
    [up |-> 0, down |-> 0, lateral_sibling |-> 0, affinity |-> FALSE,
     final_gender |-> None]

---------------------------------------------------------------------------
(* The labels *)

gendered(g, masculine, feminine, neutral) ==
    IF g = "male" THEN masculine
    ELSE IF g = "female" THEN feminine
    ELSE neutral

(* str(canonical) *)
canonical_str(u, d, l, a) ==
    "{'up': " \o ToString(u) \o ", 'down': " \o ToString(d)
      \o ", 'lateral': " \o ToString(l)
      \o ", 'affinal': " \o (IF a THEN "True" ELSE "False") \o "}"

RelationshipResult(label, type, explanation, canonical) ==
    [label |-> label, type |-> type, explanation |-> explanation,
     canonical |-> canonical]

last_token(s) == s[Len(s)]

(* Direct spouse *)
is_direct_spouse(s) ==
    s # <<>> /\ last_token(s) \in SpouseTokens /\ Len(s) = 1

(* A slip: the ancestor test misses the single parent step *)
is_ancestor_above_one(u, d, a) == d = 0 /\ u > 1 /\ ~a

is_ancestor(u, d, a) == d = 0 /\ u > 0 /\ ~a

(* A slip: one "great-" too many *)
ancestor_label_off_by_one(u, g) ==
    IF u = 1 THEN gendered(g, "father", "mother", "parent")
    ELSE IF u = 2 THEN gendered(g, "grandfather", "grandmother", "grandparent")
    ELSE LET greats == u - 1
         IN  gendered(g, repeat("great-", greats) \o "grandfather",
                         repeat("great-", greats) \o "grandmother",
                         repeat("great-", greats) \o "grandparent")

ancestor_label(u, g) ==
    IF u = 1 THEN gendered(g, "father", "mother", "parent")
    ELSE IF u = 2 THEN gendered(g, "grandfather", "grandmother", "grandparent")
    ELSE LET greats == u - 2
         IN  gendered(g, repeat("great-", greats) \o "grandfather",
                         repeat("great-", greats) \o "grandmother",
                         repeat("great-", greats) \o "grandparent")

is_descendant(u, d, a) == u = 0 /\ d > 0 /\ ~a

descendant_label(d, g) ==
    IF d = 1 THEN gendered(g, "son", "daughter", "child")
    ELSE IF d = 2 THEN gendered(g, "grandson", "granddaughter", "grandchild")
    ELSE LET greats == d - 2
         IN  gendered(g, repeat("great-", greats) \o "grandson",
                         repeat("great-", greats) \o "granddaughter",
                         repeat("great-", greats) \o "grandchild")

(* A slip: the sibling test without the sibling-hop condition *)
is_sibling_any_lateral(u, d, l, a) == u = 1 /\ d = 1 /\ ~a

(* Siblings *)
is_sibling(u, d, l, a) == u = 1 /\ d = 1 /\ l >= 1 /\ ~a

is_aunt_uncle(u, d, a) == u >= 2 /\ d = 1 /\ ~a

aunt_uncle_label(u, g) ==
    LET gen == u - 1
    IN  IF gen = 1 THEN gendered(g, "uncle", "aunt", "aunt/uncle")
        ELSE gendered(g, repeat("great-", gen - 1) \o "granduncle",
                         repeat("great-", gen - 1) \o "grandaunt",
                         repeat("great-", gen - 1) \o "grand-aunt/uncle")

is_niece_nephew(u, d, a) == u = 1 /\ d >= 2 /\ ~a

niece_nephew_label(d, g) ==
    LET gen == d - 1
    IN  IF gen = 1 THEN gendered(g, "nephew", "niece", "niece/nephew")
        ELSE IF gen = 2
        THEN gendered(g, "grandnephew", "grandniece", "grandniece/nephew")
        ELSE repeat("great-", gen - 2)
               \o gendered(g, "grandnephew", "grandniece", "grandniece/nephew")

(* Cousins *)
is_cousin(u, d, a) == u >= 2 /\ d >= 2 /\ ~a

min(a, b) == IF a <= b THEN a ELSE b

abs(n) == IF n < 0 THEN 0 - n ELSE n

(* ordinals.get(degree, str(degree) + 'th') *)
ordinals_get(degree) ==
    CASE degree = 1 -> "first"
      [] degree = 2 -> "second"
      [] degree = 3 -> "third"
      [] degree = 4 -> "fourth"
      [] degree = 5 -> "fifth"
      [] degree = 6 -> "sixth"
      [] OTHER -> ToString(degree) \o "th"

cousin_label(u, d) ==
    LET degree == min(u, d) - 1
        removal == abs(u - d)
        cousin_core == ordinals_get(degree) \o " cousin"
    IN  IF removal = 0 THEN cousin_core
        ELSE cousin_core \o " " \o ToString(removal) \o " "
               \o _pluralize("time", removal) \o " removed"

(* A slip: the first token tested instead of the last *)
last_is_sibling_first(s) == s # <<>> /\ Head(s) \in SiblingTokens

(* Affinal branch: sibling-in-law by the last token *)
last_is_sibling(s) == s # <<>> /\ last_token(s) \in SiblingTokens

(* A slip: the parent-in-law test without the down == 0 condition *)
is_parent_in_law_any_down(u, d) == u >= 1

is_parent_in_law(u, d) == u >= 1 /\ d = 0

parent_in_law_label(u, g) ==
    IF u = 1 THEN gendered(g, "father-in-law", "mother-in-law", "parent-in-law")
    ELSE IF u = 2
    THEN gendered(g, "grandfather-in-law", "grandmother-in-law",
                     "grandparent-in-law")
    ELSE LET greats == u - 2
         IN  gendered(g, repeat("great-", greats) \o "grandfather-in-law",
                         repeat("great-", greats) \o "grandmother-in-law",
                         repeat("great-", greats) \o "grandparent-in-law")

is_step_child(u, d) == u = 0 /\ d >= 1

step_child_label(d, g) ==
    IF d = 1 THEN gendered(g, "stepson", "stepdaughter", "stepchild")
    ELSE IF d = 2
    THEN gendered(g, "step-grandson", "step-granddaughter", "step-grandchild")
    ELSE LET greats == d - 2
         IN  gendered(g, "step-" \o repeat("great-", greats) \o "grandson",
                         "step-" \o repeat("great-", greats) \o "granddaughter",
                         "step-" \o repeat("great-", greats) \o "grandchild")

(* Fallbacks *)
is_ambiguous(u, d, a) == u = 1 /\ d = 1 /\ ~a

(* A slip: a type outside the result's Literal *)
default_result_unknown_type(c) ==
    RelationshipResult("unknown / ambiguous", "unknown",
        "The selected path doesn't map to a common English kinship term.", c)

default_result(c) ==
    RelationshipResult("unknown / ambiguous", "none",
        "The selected path doesn't map to a common English kinship term.", c)

(* The ordered rules: the first that matches returns *)
classify(s, u, d, l, a, g) ==
    LET c == canonical_str(u, d, l, a)
    IN  IF is_direct_spouse(s)
        THEN RelationshipResult(gendered(g, "husband", "wife", "spouse"),
                 "affinal", "Direct marital relation.", c)
        ELSE IF is_ancestor(u, d, a)
        THEN RelationshipResult(ancestor_label(u, g), "blood",
                 "Direct ancestor.", c)
        ELSE IF is_descendant(u, d, a)
        THEN RelationshipResult(descendant_label(d, g), "blood",
                 "Direct descendant.", c)
        ELSE IF is_sibling(u, d, l, a)
        THEN RelationshipResult(gendered(g, "brother", "sister", "sibling"),
                 "blood", "Child of your parent (not you).", c)
        ELSE IF is_aunt_uncle(u, d, a)
        THEN RelationshipResult(aunt_uncle_label(u, g), "blood",
                 "Sibling of an ancestor.", c)
        ELSE IF is_niece_nephew(u, d, a)
        THEN RelationshipResult(niece_nephew_label(d, g), "blood",
                 "Descendant of your sibling.", c)
        ELSE IF is_cousin(u, d, a)
        THEN RelationshipResult(cousin_label(u, d), "blood",
                 "Descended from a shared ancestor on a different branch.", c)
        ELSE IF a
        THEN IF last_is_sibling(s)
             THEN RelationshipResult(
                      gendered(g, "brother-in-law", "sister-in-law",
                                  "sibling-in-law"),
                      "affinal",
                      "Sibling of your spouse OR spouse of your sibling.", c)
             ELSE IF is_parent_in_law(u, d)
             THEN RelationshipResult(parent_in_law_label(u, g), "affinal",
                      "Ancestor of your spouse.", c)
             ELSE IF is_step_child(u, d)
             THEN RelationshipResult(step_child_label(d, g), "affinal",
                      "Descendant of your spouse (not biologically yours).", c)
             ELSE RelationshipResult("no direct relation", "none",
                      "Related only by marriage through multiple links (e.g., your brother's wife's brother).",
                      c)
        ELSE IF is_ambiguous(u, d, a)
        THEN RelationshipResult("sibling (or self via parent)", "blood",
                 "Ambiguous path interpreted as sibling.", c)
        ELSE default_result(c)

---------------------------------------------------------------------------
(* The requests explored *)

cousin == <<"c","o","u","s","i","n">>

(* Step tokens of a request; "cousin", "x" and the empty string are unrecognized *)
StepTokens ==
    { mother, father, parent, son, daughter, child, brother, sister, sibling,
      spouse, husband, wife,
      <<"M","o","m">>, <<" ","d","a","d"," ">>, cousin, <<>> }

LowerSet == { LowerLetters[k] : k \in 1..Len(LowerLetters) }

upperChar(c) ==
    IF c \in LowerSet
    THEN UpperLetters[CHOOSE k \in 1..Len(LowerLetters) : LowerLetters[k] = c]
    ELSE c

Words == alias_keys \cup { cousin, <<"x">>, <<>> }

Cased(w) ==
    { w,
      [k \in 1..Len(w) |-> upperChar(w[k])],
      [k \in 1..Len(w) |-> IF k = 1 THEN upperChar(w[k]) ELSE w[k]] }

LeftPadding == { <<>>, <<" ">> }

RightPadding == { <<>>, <<" ", "\t">> }

(* Every word in three casings with whitespace around it *)
RawTokens ==
    { l \o c \o r : l \in LeftPadding, r \in RightPadding,
                    c \in UNION { Cased(w) : w \in Words } }

DeepTokens == { father, sister, child }

PairTokens == { father, son, sister, wife, spouse, cousin }

SeqsUpTo(S, n) == UNION { [1..k -> S] : k \in 0..n }

NoResult == RelationshipResult("", "", "", "")

InitWith(inputs) ==
    /\ req \in inputs
    /\ steps = <<>>
    /\ i = 0
    /\ up = 0
    /\ down = 0
    /\ lateral_sibling = 0
    /\ affinity = FALSE
    /\ final_gender = None
    /\ pc = "start"
    /\ result = NoResult

(* Short requests over the whole vocabulary, long ones over three tokens *)
Init == InitWith(SeqsUpTo(StepTokens, MaxLen) \cup SeqsUpTo(DeepTokens, MaxDeep))

InitNorm == InitWith(SeqsUpTo(RawTokens, MaxNormLen))

InitPair == InitWith(SeqsUpTo(PairTokens, MaxPair))

(* steps = [_normalize_token(s) for s in req.steps], counters at zero *)
Normalize ==
    /\ pc = "start"
    /\ steps' = [k \in 1..Len(req) |-> _normalize_token(req[k])]
    /\ i' = 0
    /\ up' = scan_start.up
    /\ down' = scan_start.down
    /\ lateral_sibling' = scan_start.lateral_sibling
    /\ affinity' = scan_start.affinity
    /\ final_gender' = scan_start.final_gender
    /\ pc' = "scan"
    /\ UNCHANGED <<req, result>>

(* One iteration of the loop over the tokens *)
ScanStep ==
    /\ pc = "scan"
    /\ i < Len(steps)
    /\ LET acc == [up |-> up, down |-> down,
                   lateral_sibling |-> lateral_sibling,
                   affinity |-> affinity, final_gender |-> final_gender]
           nxt == scan_token(acc, steps[i + 1])
       IN  /\ up' = nxt.up
           /\ down' = nxt.down
           /\ lateral_sibling' = nxt.lateral_sibling
           /\ affinity' = nxt.affinity
           /\ final_gender' = nxt.final_gender
    /\ i' = i + 1
    /\ UNCHANGED <<req, steps, pc, result>>

(* The loop is over: the ordered rules return the result *)
Classify ==
    /\ pc = "scan"
    /\ i = Len(steps)
    /\ result' = classify(steps, up, down, lateral_sibling, affinity,
                          final_gender)
    /\ pc' = "done"
    /\ UNCHANGED <<req, steps, i, up, down, lateral_sibling, affinity,
                   final_gender>>

(* The whole function on a request: normalization, the loop, the rules *)
normalize_all(r) == [k \in 1..Len(r) |-> _normalize_token(r[k])]

RECURSIVE scan_all(_)
scan_all(s) ==
    IF s = <<>> THEN scan_start
    ELSE scan_token(scan_all(SubSeq(s, 1, Len(s) - 1)), last_token(s))

compute_relationship(r) ==
    LET s == normalize_all(r)
        acc == scan_all(s)
    IN  classify(s, acc.up, acc.down, acc.lateral_sibling, acc.affinity,
                 acc.final_gender)

Next == Normalize \/ ScanStep \/ Classify

Spec == Init /\ [][Next]_vars

SpecNorm == InitNorm /\ [][Next]_vars

SpecPair == InitPair /\ [][Next]_vars

---------------------------------------------------------------------------
(* Properties *)

Types == {"blood", "affinal", "none"}

RecognizedTokens == ParentTokens \cup ChildTokens \cup SiblingTokens \cup SpouseTokens

MaleTokens == {father, son, brother, husband}

FemaleTokens == {mother, daughter, sister, wife}

Count(s, T) == Cardinality({k \in 1..Len(s) : s[k] \in T})

Has(s, T) == \E k \in 1..Len(s) : s[k] \in T

ScanEnded == pc = "done"

(* the gender carried by the last recognized token of s *)
LastRecognizedGender(s) ==
    LET R == {k \in 1..Len(s) : s[k] \in RecognizedTokens}
    IN  IF R = {} THEN None
        ELSE LET t == s[CHOOSE k \in R : \A m \in R : m <= k]
             IN  IF t \in MaleTokens THEN "male"
                 ELSE IF t \in FemaleTokens THEN "female"
                 ELSE None

(* C1: every request reaches a return, and the returned type is one of
   blood, affinal, none. *)
C1_TotalAndTyped ==
    /\ ScanEnded => result.type \in Types /\ result.label # ""
    /\ (pc = "scan" /\ i = Len(steps)) =>
          compute_relationship(req).type \in Types

C1_Witness ==
    /\ ScanEnded
    /\ Len(steps) >= 2
    /\ Has(steps, {cousin, <<>>})
    /\ Has(steps, RecognizedTokens)
    /\ result.type = "none"

(* C2: with only parent-type (resp. only child-type) recognized tokens the
   result is blood and the label is the gendered stem for one generation,
   "grand" + stem for two, and (n - 2) times "great-" before it beyond. *)
C2_LineLabel(n, stem) ==
    IF n = 1 THEN stem ELSE repeat("great-", n - 2) \o "grand" \o stem

C2_AncestorDescendantLabels ==
    ScanEnded =>
      /\ ( /\ Has(steps, ParentTokens)
           /\ ~Has(steps, ChildTokens \cup SiblingTokens \cup SpouseTokens) ) =>
             /\ result.type = "blood"
             /\ down = 0 /\ up = Count(steps, ParentTokens) /\ ~affinity
             /\ result.label =
                  C2_LineLabel(Count(steps, ParentTokens),
                      gendered(LastRecognizedGender(steps),
                               "father", "mother", "parent"))
      /\ ( /\ Has(steps, ChildTokens)
           /\ ~Has(steps, ParentTokens \cup SiblingTokens \cup SpouseTokens) ) =>
             /\ result.type = "blood"
             /\ up = 0 /\ down = Count(steps, ChildTokens) /\ ~affinity
             /\ result.label =
                  C2_LineLabel(Count(steps, ChildTokens),
                      gendered(LastRecognizedGender(steps),
                               "son", "daughter", "child"))

C2_Witness ==
    /\ ScanEnded
    /\ up = 4 /\ down = 0
    /\ result.label = "great-great-grandfather"
    /\ result.type = "blood"

(* C3: with up >= 2, down >= 2 and no spouse edge the result is blood and
   the label is "<ordinal> cousin" for degree min(up, down) - 1, followed by
   " <removal> time(s) removed" when up and down differ; the gender plays
   no part. *)
C3_Ordinals == <<"first", "second", "third", "fourth", "fifth", "sixth">>

C3_CousinLabel(u, d) ==
    LET degree == (IF u < d THEN u ELSE d) - 1
        removal == IF u < d THEN d - u ELSE u - d
        ordinal == IF degree \in 1..6 THEN C3_Ordinals[degree]
                   ELSE ToString(degree) \o "th"
    IN  ordinal \o " cousin"
          \o (IF removal = 0 THEN ""
              ELSE IF removal = 1 THEN " 1 time removed"
              ELSE " " \o ToString(removal) \o " times removed")

C3_CousinLabels ==
    (ScanEnded /\ up >= 2 /\ down >= 2 /\ ~affinity) =>
        /\ result.type = "blood"
        /\ result.label = C3_CousinLabel(up, down)

C3_Witness ==
    /\ ScanEnded
    /\ up = 4 /\ down = 2 /\ ~affinity
    /\ final_gender = "female"
    /\ result.label = "first cousin 2 times removed"

(* C4: with a spouse edge, a sibling-type last token gives the gendered
   sibling-in-law whatever up and down are; a request of two or more
   tokens whose last token is not sibling-type and that ends with up >= 1
   and down >= 1, or with up = 0 and down = 0, gives "no direct relation"
   with type none. *)
C4_AffinalLastTokenPriority ==
    ScanEnded =>
      /\ (Has(steps, SpouseTokens) /\ steps[Len(steps)] \in SiblingTokens) =>
            /\ result.type = "affinal"
            /\ result.label =
                 (IF steps[Len(steps)] = brother THEN "brother-in-law"
                  ELSE IF steps[Len(steps)] = sister THEN "sister-in-law"
                  ELSE "sibling-in-law")
      /\ ( /\ Has(steps, SpouseTokens)
           /\ Len(steps) >= 2
           /\ steps[Len(steps)] \notin SiblingTokens
           /\ (up >= 1 /\ down >= 1) \/ (up = 0 /\ down = 0) ) =>
            /\ result.label = "no direct relation"
            /\ result.type = "none"

C4_Witness ==
    /\ ScanEnded
    /\ steps = <<spouse, brother, wife>>
    /\ up = 1 /\ down = 1
    /\ result.label = "no direct relation"

(* C5: during and after the scan the gender signal is the gender of the
   last recognized token processed so far, unknown when there is none;
   the single-parent label uses that gender. *)
C5_GenderIsLastRecognized ==
    /\ pc \in {"scan", "done"} =>
          final_gender = LastRecognizedGender(SubSeq(steps, 1, i))
    /\ (ScanEnded /\ up = 1 /\ down = 0 /\ ~affinity) =>
          result.label =
            (CASE LastRecognizedGender(steps) = "male" -> "father"
               [] LastRecognizedGender(steps) = "female" -> "mother"
               [] OTHER -> "parent")

C5_Witness ==
    /\ ScanEnded
    /\ steps = <<father, spouse, cousin>>
    /\ final_gender = None

OtherRequests == SeqsUpTo(PairTokens, MaxPair)

SameLastToken(s, t) ==
    \/ s = <<>> /\ t = <<>>
    \/ s # <<>> /\ t # <<>> /\ s[Len(s)] = t[Len(t)]

(* what the function does on each of the other requests *)
OtherOutcomes ==
    { [req |-> o,
       steps |-> normalize_all(o),
       acc |-> scan_all(normalize_all(o)),
       type |-> compute_relationship(o).type] : o \in OtherRequests }

SameStructure(o) ==
    /\ o.acc.up = up /\ o.acc.down = down
    /\ o.acc.lateral_sibling = lateral_sibling
    /\ o.acc.affinity = affinity
    /\ SameLastToken(o.steps, steps)

(* C6 as stated: two requests with the same (up, down, lateralSibling,
   affinal) and the same last token receive the same type. *)
C6_TypeByStructureAndLastToken ==
    ScanEnded =>
      \A o \in OtherOutcomes :
          SameStructure(o) => o.type = result.type

(* C6 amended: two requests with the same (up, down, lateralSibling,
   affinal), the same last token and the same answer to "is the request
   exactly one token long" receive the same type. *)
C6_TypeByStructureLastTokenAndSingle ==
    ScanEnded =>
      \A o \in OtherOutcomes :
          (SameStructure(o) /\ ((Len(o.req) = 1) <=> (Len(req) = 1))) =>
              o.type = result.type

C6_Witness ==
    /\ ScanEnded
    /\ steps = <<sister, wife>>
    /\ \E o \in OtherOutcomes :
          /\ Len(o.req) = 3
          /\ SameStructure(o)
          /\ o.type = result.type

Aliases == {mom, mum, dad, boy, girl, man, woman, bro, sis, parents, kids}

CanonicalFixed == \A t \in RecognizedTokens : _normalize_token(t) = t

AliasesToFixed ==
    \A t \in Aliases :
        /\ _normalize_token(t) \in RecognizedTokens
        /\ _normalize_token(_normalize_token(t)) = _normalize_token(t)

(* C7: normalizing a normalized token changes nothing; the 12 canonical
   tokens are fixed points and every alias maps to a fixed point. *)
C7_NormalizeIdempotent ==
    /\ pc # "start" =>
          \A k \in 1..Len(req) :
              /\ steps[k] = _normalize_token(req[k])
              /\ _normalize_token(steps[k]) = steps[k]
    /\ pc = "start" =>
          \A k \in 1..Len(req) :
              _normalize_token(_normalize_token(req[k])) = _normalize_token(req[k])
    /\ CanonicalFixed
    /\ AliasesToFixed

C7_Witness ==
    /\ pc = "scan"
    /\ req = << <<" ", "M", "O", "M", " ", "\t">> >>
    /\ steps = <<mother>>

(* C8: every step keeps the counters non-negative and never decreases
   them, never clears affinal, and one loop iteration changes them by the
   kind of its token only. *)
C8_ScanEffects ==
    [][ /\ up >= 0 /\ down >= 0 /\ lateral_sibling >= 0
        /\ up' >= up /\ down' >= down /\ lateral_sibling' >= lateral_sibling
        /\ affinity => affinity'
        /\ (pc = "scan" /\ i < Len(steps) /\ i' = i + 1) =>
             LET tok == steps[i + 1]
             IN  /\ tok \in ParentTokens =>
                       /\ up' = up + 1 /\ down' = down
                       /\ lateral_sibling' = lateral_sibling
                       /\ affinity' = affinity
                 /\ tok \in ChildTokens =>
                       /\ up' = up /\ down' = down + 1
                       /\ lateral_sibling' = lateral_sibling
                       /\ affinity' = affinity
                 /\ tok \in SiblingTokens =>
                       /\ up' = up + 1 /\ down' = down + 1
                       /\ lateral_sibling' = lateral_sibling + 1
                       /\ affinity' = affinity
                 /\ tok \in SpouseTokens =>
                       /\ up' = up /\ down' = down
                       /\ lateral_sibling' = lateral_sibling
                       /\ affinity' = TRUE
                 /\ tok \notin RecognizedTokens =>
                       /\ up' = up /\ down' = down
                       /\ lateral_sibling' = lateral_sibling
                       /\ affinity' = affinity
                       /\ final_gender' = final_gender
      ]_vars

C8_Witness ==
    /\ pc = "scan"
    /\ steps = <<wife, sibling, cousin>>
    /\ i = 3
    /\ up = 1 /\ down = 1 /\ lateral_sibling = 1 /\ affinity
    /\ final_gender = None

AmbiguousStructure ==
    up = 1 /\ down = 1 /\ lateral_sibling = 0 /\ ~affinity

(* C9 as stated: no scan ends with up = 1, down = 1, lateralSibling = 0
   and affinal false, and "sibling (or self via parent)" is never
   returned. *)
C9_AmbiguousUnreachable ==
    ScanEnded =>
      /\ ~AmbiguousStructure
      /\ result.label # "sibling (or self via parent)"

(* C9 amended: "sibling (or self via parent)" is returned, with type blood,
   exactly when the scan ends with up = 1, down = 1, lateralSibling = 0 and
   affinal false, which is exactly when the request holds one parent-type
   token, one child-type token and no sibling-type or spouse-type token. *)
C9_AmbiguousExactly ==
    ScanEnded =>
      /\ (result.label = "sibling (or self via parent)") <=> AmbiguousStructure
      /\ AmbiguousStructure <=>
            /\ Count(steps, ParentTokens) = 1
            /\ Count(steps, ChildTokens) = 1
            /\ ~Has(steps, SiblingTokens \cup SpouseTokens)
      /\ AmbiguousStructure => result.type = "blood"

C9_Witness ==
    /\ ScanEnded
    /\ steps = <<father, son>>
    /\ AmbiguousStructure
    /\ result.label = "sibling (or self via parent)"

(* C10: "unknown / ambiguous" with type none is returned exactly when the
   request holds no recognized token, that is when the scan ends with
   up = 0, down = 0, lateralSibling = 0 and affinal false. *)
C10_DefaultExactly ==
    ScanEnded =>
      /\ (result.label = "unknown / ambiguous") <=> ~Has(steps, RecognizedTokens)
      /\ ~Has(steps, RecognizedTokens) <=>
            (up = 0 /\ down = 0 /\ lateral_sibling = 0 /\ ~affinity)
      /\ (result.label = "unknown / ambiguous") => result.type = "none"

C10_Witness ==
    /\ ScanEnded
    /\ steps = <<cousin, <<>>>>
    /\ result.label = "unknown / ambiguous"
    /\ result.type = "none"

====
